---- MODULE Spec2Model ----
(***************************************************************************)
(* Model of webcam-fix/v4l2_cap_hack.c: an LD_PRELOAD library whose        *)
(* ioctl() forwards every call to the next ioctl in link order and, for a  *)
(* successful VIDIOC_QUERYCAP on a device whose card name looks like a     *)
(* v4l2loopback device, ORs V4L2_CAP_VIDEO_OUTPUT into the capability      *)
(* fields of the caller's struct v4l2_capability.                          *)
(*                                                                         *)
(* Bytes are naturals 0..255, strings are sequences of ASCII codes, the    *)
(* 32-bit fields are the four bytes they occupy in memory (little endian). *)
(* Several threads of the host                                             *)
(* process call ioctl() concurrently; the only shared variable of the      *)
(* library is the function pointer real_ioctl, read and written without    *)
(* synchronisation.                                                        *)
(***************************************************************************)
EXTENDS Naturals, Integers, Sequences, FiniteSets, TLC

(* ---------------- bounds of the model ---------------- *)

\* number of threads of the host process that call ioctl()
NumThreads == 2
\* calls of dlsym the model follows in one process (only a process whose
\* lookup fails and whose threads survive the fault can exceed NumThreads)
MaxLookups == 3

Threads == 1..NumThreads

(* ---------------- constants of <linux/videodev2.h> ---------------- *)

\* an ioctl request code, _IOC(dir, type, nr, size): the number
\* (dir << 30) | (size << 16) | (type << 8) | nr, kept as its four bit fields
IOC(dir, type, nr, size) == [dir |-> dir, type |-> type, nr |-> nr, size |-> size]
\* _IOR('V', 0, struct v4l2_capability) = 0x80685600
VIDIOC_QUERYCAP == IOC(2, 86, 0, 104)
\* _IOWR('V', 4, struct v4l2_format) = 0xc0d05604
VIDIOC_G_FMT == IOC(3, 86, 4, 208)
V4L2_CAP_VIDEO_CAPTURE == 1
V4L2_CAP_VIDEO_OUTPUT == 2
\* sizes of the char arrays driver[16], card[32], bus_info[32]
DriverLen == 16
CardLen == 32
BusInfoLen == 32
\* width of the __u32 fields
WordBits == 32

NUL == 0

(* ---------------- the three literals of lines 57-59 ---------------- *)

\* "Loopback"
StrLoopback == <<76, 111, 111, 112, 98, 97, 99, 107>>
\* "NekoCam"
StrNekoCam == <<78, 101, 107, 111, 67, 97, 109>>
\* "loopback"
StrLowerLoopback == <<108, 111, 111, 112, 98, 97, 99, 107>>

(* ---------------- bytes, words, C strings ---------------- *)

RECURSIVE Pow2(_)
Pow2(n) == IF n = 0 THEN 1 ELSE 2 * Pow2(n - 1)

\* the four bytes of a __u32 as they lie in memory (little endian), from its
\* high and low 16-bit halves
Word(hi, lo) == <<lo % 256, lo \div 256, hi % 256, hi \div 256>>

\* bit i (0 = least significant) of the byte b, of the word w
ByteBit(b, i) == (b \div Pow2(i)) % 2
Bit(w, i) == ByteBit(w[(i \div 8) + 1], i % 8)

\* the C operator | on two bytes, bit by bit
RECURSIVE ByteOrFrom(_, _, _)
ByteOrFrom(a, b, i) ==
    IF i = 8 THEN 0
    ELSE (IF ByteBit(a, i) = 1 \/ ByteBit(b, i) = 1 THEN Pow2(i) ELSE 0)
         + ByteOrFrom(a, b, i + 1)

\* the C operator | on two unsigned 32-bit words
BitOr(a, b) == [k \in 1..(WordBits \div 8) |-> ByteOrFrom(a[k], b[k], 0)]

\* s followed by NUL bytes up to n bytes: a char array holding the string s
Pad(s, n) == s \o [i \in 1..(n - Len(s)) |-> NUL]

HasNul(bytes) == \E i \in 1..Len(bytes) : bytes[i] = NUL

\* the C string that starts at the first byte of bytes: everything before the
\* first NUL (all of bytes when they hold no NUL)
CStr(bytes) ==
    IF HasNul(bytes)
    THEN SubSeq(bytes, 1, (CHOOSE i \in 1..Len(bytes) :
                              bytes[i] = NUL /\ \A j \in 1..(i - 1) : bytes[j] # NUL) - 1)
    ELSE bytes

\* needle occurs in hay as a run of consecutive bytes
Occurs(needle, hay) ==
    \E k \in 0..(Len(hay) - Len(needle)) :
        \A i \in 1..Len(needle) : hay[k + i] = needle[i]

(* ---------------- struct v4l2_capability ---------------- *)

\* the fields of struct v4l2_capability, in memory order
MkCap(driver, card, bus_info, version, capabilities, device_caps, reserved) ==
    [driver |-> driver, card |-> card, bus_info |-> bus_info, version |-> version,
     capabilities |-> capabilities, device_caps |-> device_caps, reserved |-> reserved]

\* __u32 reserved[3], all zero
NoReserved == <<Word(0, 0), Word(0, 0), Word(0, 0)>>
\* KERNEL_VERSION(6, 8, 0)
Version == Word(6, 2048)

\* a record the caller has cleared before the call
ZeroCap ==
    MkCap(Pad(<<>>, DriverLen), Pad(<<>>, CardLen), Pad(<<>>, BusInfoLen), Word(0, 0), Word(0, 0), Word(0, 0), NoReserved)

\* "v4l2 loopback", "uvcvideo"
DrvLoopback == Pad(<<118, 52, 108, 50, 32, 108, 111, 111, 112, 98, 97, 99, 107>>, DriverLen)
DrvUvc == Pad(<<117, 118, 99, 118, 105, 100, 101, 111>>, DriverLen)
\* "platform:v4l2loopback-000", "usb-0000:00:14.0-6"
BusLoopback ==
    Pad(<<112, 108, 97, 116, 102, 111, 114, 109, 58, 118, 52, 108, 50, 108, 111, 111, 112,
          98, 97, 99, 107, 45, 48, 48, 48>>, BusInfoLen)
BusUsb ==
    Pad(<<117, 115, 98, 45, 48, 48, 48, 48, 58, 48, 48, 58, 49, 52, 46, 48, 45, 54>>, BusInfoLen)
\* "amera Unit 2 (full-width label)." : 32 bytes, no NUL
BusFull ==
    <<97, 109, 101, 114, 97, 32, 85, 110, 105, 116, 32, 50, 32, 40, 102, 117, 108, 108, 45,
      119, 105, 100, 116, 104, 32, 108, 97, 98, 101, 108, 41, 46>>
\* "Integrated Camera: Integrated C." : 32 bytes, the card array filled to its
\* full length with no terminating NUL
CardFull ==
    <<73, 110, 116, 101, 103, 114, 97, 116, 101, 100, 32, 67, 97, 109, 101, 114, 97, 58, 32,
      73, 110, 116, 101, 103, 114, 97, 116, 101, 100, 32, 67, 46>>

\* "Dummy Loopback Device", capture | streaming | device_caps
CapDummyLoopback ==
    MkCap(DrvLoopback,
          Pad(<<68, 117, 109, 109, 121, 32, 76, 111, 111, 112, 98, 97, 99, 107, 32, 68, 101,
                118, 105, 99, 101>>, CardLen),
          BusLoopback, Version, Word(34048, 1), Word(1280, 1), NoReserved)
\* "NekoCam", the output bit already set in capabilities but not in device_caps
CapNekoCam ==
    MkCap(DrvLoopback, Pad(<<78, 101, 107, 111, 67, 97, 109>>, CardLen),
          BusLoopback, Version, Word(0, 3), Word(0, 1), NoReserved)
\* "v4l2loopback-000", the capture bit only
CapLowerLoopback ==
    MkCap(DrvLoopback,
          Pad(<<118, 52, 108, 50, 108, 111, 111, 112, 98, 97, 99, 107, 45, 48, 48, 48>>, CardLen),
          BusUsb, Version, Word(0, 1), Word(0, 1), NoReserved)
\* "USB2.0 HD UVC WebCam"
CapUvcWebCam ==
    MkCap(DrvUvc,
          Pad(<<85, 83, 66, 50, 46, 48, 32, 72, 68, 32, 85, 86, 67, 32, 87, 101, 98, 67, 97,
                109>>, CardLen),
          BusUsb, Version, Word(33824, 1), Word(1056, 1), NoReserved)
\* "LOOPBACK"
CapUpperLoopback ==
    MkCap(DrvUvc, Pad(<<76, 79, 79, 80, 66, 65, 67, 75>>, CardLen),
          BusUsb, Version, Word(0, 1), Word(0, 1), NoReserved)
\* the full-length card followed by a bus_info that names v4l2loopback
CapFullCardLoopbackBus ==
    MkCap(DrvLoopback, CardFull, BusLoopback, Version, Word(0, 1), Word(0, 1), NoReserved)
\* no NUL byte from card to the end of the record
CapNoNul ==
    MkCap(DrvUvc, CardFull, BusFull, Word(257, 257), Word(257, 257), Word(257, 257),
          <<Word(257, 257), Word(257, 257), Word(257, 257)>>)

\* what the next ioctl may leave in the memory arg points to
Records ==
    {CapDummyLoopback, CapNekoCam, CapLowerLoopback, CapUvcWebCam, CapUpperLoopback,
     CapFullCardLoopbackBus, CapNoNul}

\* what may lie in memory right after the record when the scan of line 57 runs
\* off its end: a NUL at once, or "loopback" and a NUL
AfterBytes == {<<NUL>>, StrLowerLoopback \o <<NUL>>}

\* the descriptors, request codes and statuses of the calls followed
Fds == {7}
Requests == {VIDIOC_QUERYCAP, VIDIOC_G_FMT}
Statuses == {-1, 0, 1}

\* what a call of the next ioctl may do to a record that holds m: return 0 and
\* leave any of the records, or leave m as it is; return another status and
\* leave m as it is or a record whose card name is on the allow-list
Outcomes(m) ==
    {o \in Statuses \X (Records \cup {m}) : o[1] = 0 \/ o[2] \in {m, CapDummyLoopback}}

\* the address of the record thread t passes as the third argument
BufAddr(t) == <<"cap", t>>

\* values of a pointer to function
NULL == "NULL"
LibcIoctl == "libc_ioctl"

\* no status yet
NoRet == "none"

(* ---------------- the code of ioctl(), lines 30-70 ---------------- *)

\* line 31 with the test dropped: the lookup runs at every call
AlwaysResolve(h) == TRUE

\* line 31 with the test inverted, if (real_ioctl): a null pointer is never resolved
NeverResolve(h) == h # NULL

\* line 31: if (!real_ioctl)
NeedsResolve(h) == h = NULL

\* the memory strstr((char *)cap->card, ...) walks: it starts at card and is
\* not bounded by the array, so bus_info, version, capabilities, device_caps
\* and reserved follow when card holds no NUL
BytesFromCard(cap) ==
    cap.card \o cap.bus_info \o cap.version \o cap.capabilities \o cap.device_caps
        \o cap.reserved[1] \o cap.reserved[2] \o cap.reserved[3]

\* the scan leaves the record: no NUL from card to its last byte
RunsOffRecord(cap) == ~HasNul(BytesFromCard(cap))

\* strstr(haystack, needle) != NULL, haystack given as the memory it starts in
Strstr(memory, needle) == Occurs(needle, CStr(memory))

\* lines 57-59
LooksLikeLoopback(memory) ==
    \/ Strstr(memory, StrLoopback)
    \/ Strstr(memory, StrNekoCam)
    \/ Strstr(memory, StrLowerLoopback)

\* line 52 without the test of the request code
InspectAnyRequest(ret, request) == ret = 0

\* line 52 without the test of the status
InspectAnyStatus(ret, request) == request = VIDIOC_QUERYCAP

\* line 52: if (ret == 0 && request == VIDIOC_QUERYCAP)
ShouldInspect(ret, request) == ret = 0 /\ request = VIDIOC_QUERYCAP

\* lines 62-63 with = in place of |=
SetVideoOutput(cap) ==
    [cap EXCEPT !.capabilities = Word(0, V4L2_CAP_VIDEO_OUTPUT),
                !.device_caps = Word(0, V4L2_CAP_VIDEO_OUTPUT)]

\* lines 62-63
AddVideoOutput(cap) ==
    [cap EXCEPT !.capabilities = BitOr(@, Word(0, V4L2_CAP_VIDEO_OUTPUT)),
                !.device_caps = BitOr(@, Word(0, V4L2_CAP_VIDEO_OUTPUT))]

\* lines 52-68: the record as ioctl() leaves it; after is the memory behind it
AfterInspection(ret, request, cap, after) ==
    IF ShouldInspect(ret, request) /\ LooksLikeLoopback(BytesFromCard(cap) \o after)
    THEN AddVideoOutput(cap)
    ELSE cap

\* line 70 as return 0
ReturnZero(ret) == 0

\* line 70: return ret
ReturnValue(ret) == ret

\* line 49: the arguments handed to the next ioctl
ForwardArgs(a) == <<a.fd, a.request, a.arg>>

(* ---------------- state ---------------- *)

VARIABLES
    real_ioctl,  \* line 27: the static function pointer
    lookupOk,    \* the process's link order holds a next definition of "ioctl"
    alive,       \* the process has not been killed by a fault
    nLookups,    \* calls of dlsym made in the process so far
    nAssigns,    \* assignments to real_ioctl made in the process so far
    pc,          \* per thread: where it stands in ioctl()
    args,        \* per thread: the arguments (fd, request, arg) of its call
    held,        \* per thread: the value of real_ioctl it last read or computed
    fwd,         \* per thread: the calls of the next ioctl made by its current call
    dret,        \* per thread: the status the next ioctl returned
    dmem,        \* per thread: the record as the next ioctl left it
    mem,         \* per thread: the record arg points to
    ret          \* per thread: the value its call returned to the caller

vars == <<real_ioctl, lookupOk, alive, nLookups, nAssigns, pc, args, held, fwd,
          dret, dmem, mem, ret>>

shared == <<real_ioctl, nLookups, nAssigns>>

\* a lookup that answers only while real_ioctl is still null
DlsymOnlyOnce == IF lookupOk /\ real_ioctl = NULL THEN LibcIoctl ELSE NULL

\* line 32: dlsym(RTLD_NEXT, "ioctl"), the same answer at every call in one process
Dlsym == IF lookupOk THEN LibcIoctl ELSE NULL

Init ==
    /\ real_ioctl = NULL
    /\ lookupOk \in BOOLEAN
    /\ alive = TRUE
    /\ nLookups = 0
    /\ nAssigns = 0
    /\ pc = [t \in Threads |-> "idle"]
    /\ args = [t \in Threads |-> [fd |-> 0, request |-> VIDIOC_G_FMT, arg |-> BufAddr(t)]]
    /\ held = [t \in Threads |-> NULL]
    /\ fwd = [t \in Threads |-> <<>>]
    /\ dret = [t \in Threads |-> NoRet]
    /\ dmem = [t \in Threads |-> ZeroCap]
    /\ mem = [t \in Threads |-> ZeroCap]
    /\ ret = [t \in Threads |-> NoRet]

(* ---------------- steps of one call of ioctl() ---------------- *)

\* line 37: thread t enters ioctl(fd, request, &cap) with a cleared record
Call(t) ==
    /\ alive
    /\ pc[t] \in {"idle", "returned"}
    /\ \E fd \in Fds, request \in Requests :
           args' = [args EXCEPT ![t] = [fd |-> fd, request |-> request, arg |-> BufAddr(t)]]
    /\ pc' = [pc EXCEPT ![t] = "check"]
    /\ held' = [held EXCEPT ![t] = NULL]
    /\ fwd' = [fwd EXCEPT ![t] = <<>>]
    /\ dret' = [dret EXCEPT ![t] = NoRet]
    /\ dmem' = [dmem EXCEPT ![t] = ZeroCap]
    /\ mem' = [mem EXCEPT ![t] = ZeroCap]
    /\ ret' = [ret EXCEPT ![t] = NoRet]
    /\ UNCHANGED <<shared, lookupOk, alive>>

\* lines 42 and 31: init_real_ioctl() reads real_ioctl and tests it
Check(t) ==
    /\ alive
    /\ pc[t] = "check"
    /\ held' = [held EXCEPT ![t] = real_ioctl]
    /\ pc' = [pc EXCEPT ![t] = IF NeedsResolve(real_ioctl) THEN "dlsym" ELSE "forward"]
    /\ UNCHANGED <<shared, lookupOk, alive, args, fwd, dret, dmem, mem, ret>>

\* line 32, right-hand side: the call of dlsym
Lookup(t) ==
    /\ alive
    /\ pc[t] = "dlsym"
    /\ nLookups < MaxLookups
    /\ held' = [held EXCEPT ![t] = Dlsym]
    /\ nLookups' = nLookups + 1
    /\ pc' = [pc EXCEPT ![t] = "assign"]
    /\ UNCHANGED <<real_ioctl, nAssigns, lookupOk, alive, args, fwd, dret, dmem, mem, ret>>

\* line 32, the store to real_ioctl
Assign(t) ==
    /\ alive
    /\ pc[t] = "assign"
    /\ real_ioctl' = held[t]
    /\ nAssigns' = nAssigns + 1
    /\ pc' = [pc EXCEPT ![t] = "forward"]
    /\ UNCHANGED <<nLookups, lookupOk, alive, args, held, fwd, dret, dmem, mem, ret>>

\* the pointer line 49 calls through.  real_ioctl is read and written by several
\* threads with no synchronisation; the build either reloads it for the call or
\* keeps the value the thread read or stored in init_real_ioctl
CallTargets(t) == {real_ioctl, held[t]}

\* line 49 with a pointer h that is set: the next ioctl runs with the forwarded
\* arguments, returns the status s and leaves the record r in the caller's memory
NextIoctl(t, h, s, r) ==
    /\ h # NULL
    /\ fwd' = [fwd EXCEPT ![t] = Append(@, [via |-> h, args |-> ForwardArgs(args[t])])]
    /\ dret' = [dret EXCEPT ![t] = s]
    /\ dmem' = [dmem EXCEPT ![t] = r]

\* a fault (SIGSEGV) raised in thread t kills the process
Killed(t) ==
    /\ alive' = FALSE
    /\ pc' = [pc EXCEPT ![t] = "fault"]

\* a fault raised in thread t is caught by the host process, which takes the
\* thread out of ioctl() without a return
Diverted(t) ==
    /\ alive' = alive
    /\ pc' = [pc EXCEPT ![t] = "idle"]

\* line 49 behind a guard that returns -1 when the pointer is null
NullCallGuarded(t) ==
    /\ alive
    /\ pc[t] = "forward"
    /\ \E h \in CallTargets(t) : h = NULL
    /\ ret' = [ret EXCEPT ![t] = -1]
    /\ pc' = [pc EXCEPT ![t] = "returned"]
    /\ UNCHANGED <<shared, lookupOk, alive, args, held, fwd, dret, dmem, mem>>

\* line 49 with a null pointer: the call is undefined, the thread faults
NullCall(t) ==
    /\ alive
    /\ pc[t] = "forward"
    /\ \E h \in CallTargets(t) : h = NULL
    /\ \/ Killed(t)
       \/ Diverted(t)
    /\ UNCHANGED <<shared, lookupOk, args, held, fwd, dret, dmem, mem, ret>>

\* lines 49-70: the forward, the test, the scan of the card name, the two |=
\* and the return.  Nothing between line 49 and the return reads or writes
\* real_ioctl, and the record belongs to the calling thread
Forward(t) ==
    /\ alive
    /\ pc[t] = "forward"
    /\ \E h \in CallTargets(t), o \in Outcomes(mem[t]) :
        LET s == o[1]
            r == o[2]
        IN
          /\ NextIoctl(t, h, s, r)
          /\ \E after \in (IF ShouldInspect(s, args[t].request) /\ RunsOffRecord(r)
                           THEN AfterBytes ELSE {<<NUL>>}) :
                 mem' = [mem EXCEPT ![t] = AfterInspection(s, args[t].request, r, after)]
          /\ ret' = [ret EXCEPT ![t] = ReturnValue(s)]
    /\ pc' = [pc EXCEPT ![t] = "returned"]
    /\ UNCHANGED <<shared, lookupOk, alive, args, held>>

\* lines 49-59 when the scan runs off the record into memory that is not
\* mapped: the thread faults inside strstr
Overread(t) ==
    /\ alive
    /\ pc[t] = "forward"
    /\ \E h \in CallTargets(t), o \in Outcomes(mem[t]) :
        LET s == o[1]
            r == o[2]
        IN
          /\ NextIoctl(t, h, s, r)
          /\ ShouldInspect(s, args[t].request)
          /\ RunsOffRecord(r)
          /\ mem' = [mem EXCEPT ![t] = r]
    /\ \/ Killed(t)
       \/ Diverted(t)
    /\ UNCHANGED <<shared, lookupOk, args, held, ret>>

Next ==
    \E t \in Threads :
        \/ Call(t)
        \/ Check(t)
        \/ Lookup(t)
        \/ Assign(t)
        \/ NullCall(t)
        \/ Forward(t)
        \/ Overread(t)

Spec == Init /\ [][Next]_vars

(* ---------------- the properties ---------------- *)

\* the call of thread t has returned to its caller
Returned(t) == pc[t] = "returned"

\* the call of thread t is (was) a VIDIOC_QUERYCAP
IsQueryCap(t) == args[t].request = VIDIOC_QUERYCAP

\* the card name of a record: the bytes of card before its first NUL, all 32
\* of them when the array holds no NUL
CardName(cap) == CStr(cap.card)

\* the card name holds "Loopback", "NekoCam" or "loopback"
NameOnAllowList(cap) ==
    \/ Occurs(StrLoopback, CardName(cap))
    \/ Occurs(StrNekoCam, CardName(cap))
    \/ Occurs(StrLowerLoopback, CardName(cap))

\* the word new is the word old with the V4L2_CAP_VIDEO_OUTPUT bit set and
\* every other bit as it was
IsOldOrOutput(new, old) ==
    \A i \in 0..(WordBits - 1) :
        Bit(new, i) = 1 <=> (Bit(old, i) = 1 \/ Bit(Word(0, V4L2_CAP_VIDEO_OUTPUT), i) = 1)

\* C1: a returned call whose request is not VIDIOC_QUERYCAP returns the status
\* of the next ioctl and leaves the memory arg points to as the next ioctl
\* left it.
C1_Transparency ==
    \A t \in Threads :
        (Returned(t) /\ ~IsQueryCap(t)) => (ret[t] = dret[t] /\ mem[t] = dmem[t])

\* a call with another request has returned after the next ioctl returned 0
\* and left a record whose card name is on the allow-list
C1_Witness ==
    \E t \in Threads :
        Returned(t) /\ ~IsQueryCap(t) /\ dret[t] = 0 /\ NameOnAllowList(dmem[t])

\* C2: after a VIDIOC_QUERYCAP for which the next ioctl returned 0 and left a
\* card name on the allow-list, capabilities and device_caps are the words the
\* next ioctl left with the output bit set and no other bit changed, and every
\* other field is as the next ioctl left it.
C2_OutputBitAdded ==
    \A t \in Threads :
        (Returned(t) /\ IsQueryCap(t) /\ dret[t] = 0 /\ NameOnAllowList(dmem[t])) =>
            /\ IsOldOrOutput(mem[t].capabilities, dmem[t].capabilities)
            /\ IsOldOrOutput(mem[t].device_caps, dmem[t].device_caps)
            /\ mem[t].driver = dmem[t].driver
            /\ mem[t].card = dmem[t].card
            /\ mem[t].bus_info = dmem[t].bus_info
            /\ mem[t].version = dmem[t].version
            /\ mem[t].reserved = dmem[t].reserved

\* such a call has returned, the capture bit was set and the output bit clear
\* in what the next ioctl left, and both are set now
C2_Witness ==
    \E t \in Threads :
        /\ Returned(t) /\ IsQueryCap(t) /\ dret[t] = 0 /\ NameOnAllowList(dmem[t])
        /\ Bit(dmem[t].capabilities, 0) = 1 /\ Bit(dmem[t].capabilities, 1) = 0
        /\ Bit(mem[t].capabilities, 0) = 1 /\ Bit(mem[t].capabilities, 1) = 1
        /\ Bit(dmem[t].capabilities, 31) = 1 /\ Bit(mem[t].capabilities, 31) = 1

\* C3: after a VIDIOC_QUERYCAP for which the next ioctl returned 0 and left a
\* card name that holds none of the three strings, the record is what the
\* next ioctl left and 0 is returned.
C3_NoMatchUnmodified ==
    \A t \in Threads :
        (Returned(t) /\ IsQueryCap(t) /\ dret[t] = 0 /\ ~NameOnAllowList(dmem[t])) =>
            (mem[t] = dmem[t] /\ ret[t] = 0)

\* C4: after a VIDIOC_QUERYCAP for which the next ioctl returned a negative
\* status, the record is what the next ioctl left and that status is returned.
C4_FailurePassThrough ==
    \A t \in Threads :
        (Returned(t) /\ IsQueryCap(t) /\ dret[t] < 0) =>
            (mem[t] = dmem[t] /\ ret[t] = dret[t])

\* a failed VIDIOC_QUERYCAP has returned with a card name on the allow-list in
\* the record
C4_Witness ==
    \E t \in Threads :
        Returned(t) /\ IsQueryCap(t) /\ dret[t] = -1 /\ NameOnAllowList(mem[t])

\* C5: a call makes at most one call of the next ioctl; a returned call has
\* made exactly one, with its own (fd, request, arg), and has returned the
\* status of that call.
C5_StatusNeverFabricated ==
    \A t \in Threads :
        /\ Len(fwd[t]) <= 1
        /\ Returned(t) =>
              /\ Len(fwd[t]) = 1
              /\ fwd[t][1].args = <<args[t].fd, args[t].request, args[t].arg>>
              /\ ret[t] = dret[t]

\* a successful VIDIOC_QUERYCAP has returned with its record changed, and a
\* call has returned on a path that changes nothing
C5_Witness ==
    /\ \E t \in Threads : Returned(t) /\ IsQueryCap(t) /\ dret[t] = 0 /\ mem[t] # dmem[t]
    /\ \E t \in Threads : Returned(t) /\ (~IsQueryCap(t) \/ dret[t] # 0 \/ mem[t] = dmem[t])

\* C6: no step changes real_ioctl once it is not null.
C6_NeverReassigned == [][real_ioctl # NULL => real_ioctl' = real_ioctl]_vars

\* real_ioctl is set and has been assigned a second time
C6_Witness == real_ioctl = LibcIoctl /\ nAssigns >= 2

\* C7 as stated: in a process whose lookup succeeds, dlsym is called and
\* real_ioctl assigned at most once, and exactly once before any call returns.
C7_ResolvedExactlyOnce ==
    lookupOk =>
        /\ nLookups <= 1
        /\ nAssigns <= 1
        /\ (\E t \in Threads : Returned(t)) => (nLookups = 1 /\ nAssigns = 1)

\* C7 amended: dlsym is called only by a call whose test of line 31 read a null
\* real_ioctl, a call that makes the test once real_ioctl is set calls it not,
\* every assignment stores the answer of dlsym and follows a lookup, and when
\* the lookup succeeds there is at most one lookup per thread (one for each
\* call that raced through the test before the first assignment).
C7_ResolvedByRacingCallsOnly ==
    [][/\ nLookups' \in {nLookups, nLookups + 1}
       /\ nLookups' = nLookups + 1 =>
              \E t \in Threads : pc[t] = "dlsym" /\ held[t] = NULL /\ pc'[t] = "assign"
       /\ \A t \in Threads : (pc[t] = "check" /\ real_ioctl # NULL) => pc'[t] # "dlsym"
       /\ nAssigns' \in {nAssigns, nAssigns + 1}
       /\ nAssigns' = nAssigns + 1 => (real_ioctl' = Dlsym /\ nAssigns' <= nLookups)
       /\ nAssigns' = nAssigns => real_ioctl' = real_ioctl
       /\ lookupOk => nLookups' <= NumThreads
       /\ (\E t \in Threads : Returned(t)') => nAssigns' >= 1]_vars

\* two calls have raced: two lookups, two assignments, and a call has returned
C7_Witness ==
    lookupOk /\ nLookups >= 2 /\ nAssigns >= 2 /\ \E t \in Threads : Returned(t)

\* C8: when the lookup succeeds, a thread that stands at line 49 calls through
\* the next ioctl, whichever of the values it may use, and every call of the
\* next ioctl made so far went through it.
C8_ForwardThroughRealIoctl ==
    lookupOk =>
        \A t \in Threads :
            /\ pc[t] = "forward" => \A h \in CallTargets(t) : h = LibcIoctl
            /\ \A k \in 1..Len(fwd[t]) : fwd[t][k].via = LibcIoctl

\* two calls have raced through the test, one has been forwarded and has
\* returned, another stands at line 49
C8_Witness ==
    /\ lookupOk /\ nLookups >= 2
    /\ \E t \in Threads : Returned(t) /\ Len(fwd[t]) = 1
    /\ \E t \in Threads : pc[t] = "forward"

\* C9: when the lookup fails, real_ioctl stays null, a thread at line 49 has
\* only a null pointer to call through, no call returns a status, the next
\* ioctl is never called and the record stays as the caller passed it.
C9_ResolutionFailure ==
    ~lookupOk =>
        /\ real_ioctl = NULL
        /\ \A t \in Threads :
              /\ pc[t] = "forward" => CallTargets(t) = {NULL}
              /\ ~Returned(t)
              /\ ret[t] = NoRet
              /\ fwd[t] = <<>>
              /\ mem[t] = ZeroCap

\* the lookup has failed, null has been stored, and a thread has faulted in
\* the call through it
C9_Witness ==
    ~lookupOk /\ nAssigns >= 1 /\ \E t \in Threads : pc[t] = "fault"

\* C10: after a successful VIDIOC_QUERYCAP the record is the one the next
\* ioctl left with the output bit added when one of the three strings occurs
\* within the 32 bytes of card, and exactly the one the next ioctl left when
\* none does, whatever follows card in the record.
C10_DecisionFromCardOnly ==
    \A t \in Threads :
        (Returned(t) /\ IsQueryCap(t) /\ dret[t] = 0) =>
            mem[t] = (IF \/ Occurs(StrLoopback, dmem[t].card)
                         \/ Occurs(StrNekoCam, dmem[t].card)
                         \/ Occurs(StrLowerLoopback, dmem[t].card)
                      THEN AddVideoOutput(dmem[t])
                      ELSE dmem[t])
====
